---- MODULE Spec2Model ----
(***************************************************************************)
(* Transfer-format codec of phantomcli.image.PhantomImage: the P8, P16 and *)
(* P10 encoders, their decoders and the two dispatch tables.               *)
(*                                                                         *)
(* A numpy array is a record [shape, data]: data is the flat sequence of   *)
(* samples in C (row-major) order, shape is <<n>> for a one-dimensional    *)
(* array and <<rows, cols>> for a two-dimensional one.  Samples are the    *)
(* non-negative integers of numpy's default integer type (int64), which is *)
(* what np.array(pixels) and np.random.randint produce.                    *)
(* A byte string is a sequence of integers in 0..255.                      *)
(* Integers wider than TLC's are bit vectors: functions from bit index     *)
(* (0 = least significant) to 0 or 1.                                      *)
(***************************************************************************)
EXTENDS Integers, Sequences, FiniteSets, TLC

VARIABLES sent, received, call, result

vars == <<sent, received, call, result>>

(***************************************************************************)
(* Bounds of the model.                                                    *)
(***************************************************************************)
\* every array over Palette with at most MaxCells samples is an input
MaxCells == 3
\* patterned arrays of in-range samples have up to MaxLong samples
MaxLong == 8
\* received byte strings hold up to MaxChunks 20-byte chunks
MaxChunks == 2

(***************************************************************************)
(* Outcomes of a call: bytes, an image, or a raised exception.             *)
(***************************************************************************)
NoArray == [shape |-> <<>>, data |-> <<>>]
NoImage == [array |-> NoArray, resolution |-> <<>>]

ReturnBytes(bs) == [kind |-> "bytes", bytes |-> bs, image |-> NoImage, error |-> ""]
ReturnImage(img) == [kind |-> "image", bytes |-> <<>>, image |-> img, error |-> ""]
Raise(exc) == [kind |-> "error", bytes |-> <<>>, image |-> NoImage, error |-> exc]
NoResult == [kind |-> "none", bytes |-> <<>>, image |-> NoImage, error |-> ""]

\* marks a struct.pack / struct.unpack call that raised struct.error
StructError == <<-1>>

RECURSIVE Join(_)
\* b''.join(byte_buffer)
Join(parts) == IF parts = <<>> THEN <<>> ELSE Head(parts) \o Join(Tail(parts))

RECURSIVE Pow2(_)
Pow2(k) == IF k = 0 THEN 1 ELSE 2 * Pow2(k - 1)

(***************************************************************************)
(* PhantomImage.__init__                                                   *)
(***************************************************************************)
PhantomImage(array) ==
    [array |-> array,
     resolution |-> IF Len(array.shape) = 1
                    THEN <<array.shape[1], 1>>
                    ELSE <<array.shape[1], array.shape[2]>>]

\* array.reshape(resolution) of the flat pixel list: ValueError unless the
\* sizes agree
Reshape(pixels, resolution) ==
    IF resolution[1] * resolution[2] = Len(pixels)
    THEN ReturnImage(PhantomImage([shape |-> resolution, data |-> pixels]))
    ELSE Raise("ValueError")

(***************************************************************************)
(* struct.pack formats                                                     *)
(***************************************************************************)
\* struct.pack('>B', x)
PackB(x) == IF x >= 0 /\ x <= 255 THEN <<x>> ELSE StructError

\* variant: big-endian ('>H') instead of little-endian
PackH_bigendian(x) ==
    IF x >= 0 /\ x <= 65535 THEN <<x \div 256, x % 256>> ELSE StructError

\* struct.pack('<H', x)
PackH(x) == IF x >= 0 /\ x <= 65535 THEN <<x % 256, x \div 256>> ELSE StructError

\* struct.unpack('<H', bytes_16)[0]; -1 stands for struct.error
UnpackH(bytes_16) ==
    IF Len(bytes_16) = 2 THEN bytes_16[1] + 256 * bytes_16[2] ELSE -1

(***************************************************************************)
(* 64-bit integer arithmetic of p10 (numpy int64)                          *)
(***************************************************************************)
ToBits(x) == [i \in 0..63 |-> IF i > 30 THEN 0 ELSE (x \div Pow2(i)) % 2]
BitOr(u, v) == [i \in 0..63 |-> IF u[i] = 1 \/ v[i] = 1 THEN 1 ELSE 0]
Shl(u, k) == [i \in 0..63 |-> IF i >= k THEN u[i - k] ELSE 0]
Shr(u, k) == [i \in 0..63 |-> IF i + k <= 63 THEN u[i + k] ELSE u[63]]

\* one byte of a bit vector, bits lo..lo+7
ByteAt(u, lo) ==
    u[lo] + 2 * u[lo + 1] + 4 * u[lo + 2] + 8 * u[lo + 3] + 16 * u[lo + 4]
    + 32 * u[lo + 5] + 64 * u[lo + 6] + 128 * u[lo + 7]

\* struct.pack('!L', final_value): four bytes, big-endian, struct.error
\* unless 0 <= final_value <= 4294967295
PackL(u) ==
    IF \E i \in 32..63 : u[i] = 1
    THEN StructError
    ELSE <<ByteAt(u, 24), ByteAt(u, 16), ByteAt(u, 8), ByteAt(u, 0)>>

RECURSIVE Accumulate(_, _)
\* for value in temp: final_value |= value; final_value <<= 10
Accumulate(final_value, temp) ==
    IF temp = <<>> THEN final_value
    ELSE Accumulate(Shl(BitOr(final_value, ToBits(Head(temp))), 10), Tail(temp))

\* variant: the final `final_value <<= 2` is missing
GroupWord_nopad(temp) == PackL(Shr(Accumulate(ToBits(0), temp), 10))

\* the word of one group values[i:i+3]
GroupWord(temp) == PackL(Shl(Shr(Accumulate(ToBits(0), temp), 10), 2))

(***************************************************************************)
(* Encoders                                                                *)
(***************************************************************************)
Packed(parts) ==
    IF \E i \in 1..Len(parts) : parts[i] = StructError
    THEN Raise("struct.error")
    ELSE ReturnBytes(Join(parts))

p16(self) == Packed([i \in 1..Len(self.array.data) |-> PackH(self.array.data[i])])

p8(self) == Packed([i \in 1..Len(self.array.data) |-> PackB(self.array.data[i])])

\* values[i:i+3] for the g-th group, g = 1, 2, ...
Group(values, g) ==
    SubSeq(values, 3 * g - 2, IF 3 * g <= Len(values) THEN 3 * g ELSE Len(values))

\* variant: a short tail group is padded with zero samples to three
p10_padded(self) ==
    LET values == self.array.data
        groups == (Len(values) + 2) \div 3
        padded == values \o <<0, 0>>
    IN  Packed([g \in 1..groups |-> GroupWord(SubSeq(padded, 3 * g - 2, 3 * g))])

p10(self) ==
    LET values == self.array.data
        groups == (Len(values) + 2) \div 3
    IN  Packed([g \in 1..groups |-> GroupWord(Group(values, g))])

(***************************************************************************)
(* Decoders                                                                *)
(***************************************************************************)
\* raw_bytes[i:i+width] for the k-th slice, k = 0, 1, ...
Slice(raw_bytes, k, width) ==
    SubSeq(raw_bytes, width * k + 1,
           IF width * (k + 1) <= Len(raw_bytes) THEN width * (k + 1) ELSE Len(raw_bytes))

\* range(0, len(raw_bytes), width) has this many elements
Slices(raw_bytes, width) == (Len(raw_bytes) + width - 1) \div width

from_p16(raw_bytes, resolution) ==
    LET pixels == [k \in 1..Slices(raw_bytes, 2) |-> UnpackH(Slice(raw_bytes, k - 1, 2))]
    IN  IF \E k \in 1..Len(pixels) : pixels[k] = -1
        THEN Raise("struct.error")
        ELSE Reshape(pixels, resolution)

from_p8(raw_bytes, resolution) ==
    LET pixels == [k \in 1..Len(raw_bytes) |-> raw_bytes[k]]
    IN  Reshape(pixels, resolution)

mask == 1023

\* int.from_bytes(_bytes, 'big') of at most 20 bytes, as a 160-bit vector
FromBytesBig(_bytes) ==
    [i \in 0..159 |->
        IF i \div 8 < Len(_bytes)
        THEN (_bytes[Len(_bytes) - (i \div 8)] \div Pow2(i % 8)) % 2
        ELSE 0]

\* bytes_value & mask
AndMask(bytes_value) ==
    LET bit(i) == IF bytes_value[i] = 1 /\ (mask \div Pow2(i)) % 2 = 1 THEN Pow2(i) ELSE 0
    IN  bit(0) + bit(1) + bit(2) + bit(3) + bit(4) + bit(5) + bit(6) + bit(7)
        + bit(8) + bit(9)

\* bytes_value >>= 10 on a Python integer
ShrBig(bytes_value, k) == [i \in 0..159 |-> IF i + k <= 159 THEN bytes_value[i + k] ELSE 0]

RECURSIVE Fields(_, _)
\* _temp after `count` rounds of: append(bytes_value & mask); bytes_value >>= 10
Fields(bytes_value, count) ==
    IF count = 0 THEN <<>>
    ELSE <<AndMask(bytes_value)>> \o Fields(ShrBig(bytes_value, 10), count - 1)

\* reversed(_temp)
Reversed(s) == [i \in 1..Len(s) |-> s[Len(s) + 1 - i]]

\* variant: `pixels += _temp`, without reversed()
ChunkPixels_unreversed(_bytes) == Fields(FromBytesBig(_bytes), 16)

\* the 16 pixels of one chunk raw_bytes[index:index+20]
ChunkPixels(_bytes) == Reversed(Fields(FromBytesBig(_bytes), 16))

\* variant: the decoder of 4-byte words kept in the comment of from_p10
\* (value >>= 2, then the three 10-bit fields from the lowest up)
from_p10_words(raw_bytes, resolution) ==
    LET word(k) == Slice(raw_bytes, k - 1, 4)
        value(k) == ShrBig(FromBytesBig(word(k)), 2)
        pixels == Join([k \in 1..Slices(raw_bytes, 4) |->
                           <<AndMask(value(k)), AndMask(ShrBig(value(k), 10)),
                             AndMask(ShrBig(value(k), 20))>>])
    IN  IF \E k \in 1..Slices(raw_bytes, 4) : Len(word(k)) # 4
        THEN Raise("struct.error")
        ELSE Reshape(pixels, resolution)

from_p10(raw_bytes, resolution) ==
    LET pixels == Join([k \in 1..Slices(raw_bytes, 20) |->
                           ChunkPixels(Slice(raw_bytes, k - 1, 20))])
    IN  Reshape(pixels, resolution)

(***************************************************************************)
(* Format tokens and the two dispatch tables.  A token is a string or an   *)
(* integer: <<"str", name, 0>> or <<"int", "", code>>.                     *)
(***************************************************************************)
Str(name) == <<"str", name, 0>>
Num(code) == <<"int", "", code>>

\* _methods of to_transfer_format
EncodeMethods ==
    (Num(272) :> "p16") @@ (Num(-272) :> "p16") @@ (Num(8) :> "p8") @@ (Num(-8) :> "p8")
    @@ (Num(266) :> "p10") @@ (Str("P16") :> "p16") @@ (Str("P16R") :> "p16")
    @@ (Str("P8") :> "p8") @@ (Str("P8R") :> "p8") @@ (Str("P10") :> "p10")

\* _methods of from_transfer_format
DecodeMethods ==
    (Str("P16") :> "from_p16") @@ (Str("P16R") :> "from_p16") @@ (Str("P8") :> "from_p8")
    @@ (Str("P8R") :> "from_p8") @@ (Str("P10") :> "from_p10")

\* the method a table dispatches the token to; "" when the lookup raises
Method(table, fmt) == IF fmt \in DOMAIN table THEN table[fmt] ELSE ""

\* variant: an unknown token falls back to the default format P16
to_transfer_format_default(self, fmt) ==
    IF fmt \notin DOMAIN EncodeMethods THEN p16(self)
    ELSE CASE EncodeMethods[fmt] = "p16" -> p16(self)
           [] EncodeMethods[fmt] = "p8" -> p8(self)
           [] EncodeMethods[fmt] = "p10" -> p10(self)

to_transfer_format(self, fmt) ==
    IF fmt \notin DOMAIN EncodeMethods THEN Raise("KeyError")
    ELSE CASE EncodeMethods[fmt] = "p16" -> p16(self)
           [] EncodeMethods[fmt] = "p8" -> p8(self)
           [] EncodeMethods[fmt] = "p10" -> p10(self)

\* variant: the resolution is passed on without swapping its components
from_transfer_format_noswap(fmt, raw_bytes, resolution) ==
    IF fmt \notin DOMAIN DecodeMethods THEN Raise("KeyError")
    ELSE CASE DecodeMethods[fmt] = "from_p16" -> from_p16(raw_bytes, resolution)
           [] DecodeMethods[fmt] = "from_p8" -> from_p8(raw_bytes, resolution)
           [] DecodeMethods[fmt] = "from_p10" -> from_p10(raw_bytes, resolution)

from_transfer_format(fmt, raw_bytes, resolution) ==
    LET inverse_resolution == <<resolution[2], resolution[1]>>
    IN  IF fmt \notin DOMAIN DecodeMethods THEN Raise("KeyError")
        ELSE CASE DecodeMethods[fmt] = "from_p16" -> from_p16(raw_bytes, inverse_resolution)
               [] DecodeMethods[fmt] = "from_p8" -> from_p8(raw_bytes, inverse_resolution)
               [] DecodeMethods[fmt] = "from_p10" -> from_p10(raw_bytes, inverse_resolution)

(***************************************************************************)
(* Inputs                                                                  *)
(***************************************************************************)
\* the tokens of the format table, and tokens outside it
TableTokens ==
    {Str("P8"), Str("P8R"), Num(8), Num(-8), Str("P16"), Str("P16R"), Num(272), Num(-272),
     Str("P10"), Num(266)}
UnknownTokens == {Str("P99"), Str("p16"), Str("p8"), Num(16)}
Tokens == TableTokens \cup UnknownTokens

\* samples at the edges of the ranges of the three formats
Palette == {1, 255, 256, 1023, 1024, 65535, 65536}

\* the shapes of an array of n samples: one-dimensional, or rows x cols
Shapes(n) == {<<n>>} \cup {sh \in (1..n) \X (1..n) : sh[1] * sh[2] = n}

SmallArrays ==
    UNION {{[shape |-> sh, data |-> d] : sh \in Shapes(n), d \in [1..n -> Palette]}
           : n \in 1..MaxCells}

\* longer arrays of 10-bit samples: seed, seed + step, ... modulo 1024
Ramp(seed, step, n) == [i \in 1..n |-> (seed + step * (i - 1)) % 1024]
Ramps == {<<0, 1>>, <<250, 1>>, <<677, 341>>, <<1000, 5>>}
LongArrays ==
    UNION {{[shape |-> sh, data |-> Ramp(r[1], r[2], n)] : sh \in Shapes(n), r \in Ramps}
           : n \in (MaxCells + 1)..MaxLong}

Images == {PhantomImage(array) : array \in SmallArrays \cup LongArrays}

\* received byte strings: s, s + k, s + 2k, ... modulo 256
Pattern(s, k, len) == [i \in 1..len |-> (s + k * (i - 1)) % 256]
RawLens == (0..4) \cup UNION {{20 * c - 1, 20 * c, 20 * c + 1} : c \in 1..MaxChunks}
RawInputs == {Pattern(p[1], p[2], len) : p \in {<<255, 0>>, <<1, 37>>, <<128, 85>>},
                                           len \in RawLens}

\* resolutions a caller quotes
ResInputs == {0, 1, 2, 4, 8, 16} \X {0, 1, 2, 4, 8, 16}

Swap(resolution) == <<resolution[2], resolution[1]>>

(***************************************************************************)
(* The state.  `sent` is the image a sender holds (NoImage on a pure       *)
(* receiver), `received` the bytes and quoted resolution the network layer *)
(* hands to the decoder (NoInput on a sender), `call` the last call made   *)
(* and `result` its outcome.                                               *)
(***************************************************************************)
NoCall == [name |-> "", fmt |-> Str(""), raw |-> <<>>, resolution |-> <<>>, method |-> ""]
NoInput == <<>>

\* a sender with a constructed image, or a receiver with its input in hand
Init ==
    /\ \/ sent \in Images /\ received = NoInput
       \/ sent = NoImage /\ received \in RawInputs \X ResInputs
    /\ call = NoCall
    /\ result = NoResult

\* self.to_transfer_format(fmt)
ToTransferFormat ==
    /\ sent # NoImage
    /\ call = NoCall
    /\ \E fmt \in Tokens :
        /\ call' = [name |-> "to_transfer_format", fmt |-> fmt, raw |-> <<>>,
                    resolution |-> <<>>, method |-> Method(EncodeMethods, fmt)]
        /\ result' = to_transfer_format(sent, fmt)
    /\ UNCHANGED <<sent, received>>

\* what the caller passes to from_transfer_format: the received bytes with the
\* quoted resolution, or the bytes just encoded with the sender's resolution
\* in either order
DecodeInputs ==
    IF call = NoCall /\ received # NoInput THEN {received}
    ELSE IF call.name = "to_transfer_format" /\ result.kind = "bytes"
    THEN {result.bytes} \X {sent.resolution, Swap(sent.resolution)}
    ELSE {}

\* PhantomImage.from_transfer_format(fmt, raw_bytes, resolution)
FromTransferFormat ==
    /\ \E fmt \in Tokens, in \in DecodeInputs :
        /\ call' = [name |-> "from_transfer_format", fmt |-> fmt, raw |-> in[1],
                    resolution |-> in[2], method |-> Method(DecodeMethods, fmt)]
        /\ result' = from_transfer_format(fmt, in[1], in[2])
    /\ UNCHANGED <<sent, received>>

Next == ToTransferFormat \/ FromTransferFormat

Spec == Init /\ [][Next]_vars

(***************************************************************************)
(* Vocabulary of the properties                                            *)
(***************************************************************************)
\* every sample of the image lies in 0..hi
InRange(img, hi) == \A i \in 1..Len(img.array.data) : img.array.data[i] \in 0..hi

\* the sample at (row, col) of an image, rows and columns as its resolution
\* counts them (a one-dimensional array of length n is n rows of one column)
At(img, row, col) == img.array.data[(row - 1) * img.resolution[2] + col]

\* same dimensions and the same sample at every position
SameGrid(a, b) ==
    /\ a.resolution = b.resolution
    /\ Len(a.array.data) = Len(b.array.data)
    /\ \A row \in 1..a.resolution[1], col \in 1..a.resolution[2] :
          At(a, row, col) = At(b, row, col)

Samples(img) == Len(img.array.data)

\* the last call decoded, under token fmt, the encoding of `sent` under fmt
LoopedBack(fmt) ==
    /\ call.name = "from_transfer_format"
    /\ call.fmt = fmt
    /\ sent # NoImage
    /\ to_transfer_format(sent, fmt).kind = "bytes"
    /\ call.raw = to_transfer_format(sent, fmt).bytes

(***************************************************************************)
(* P8 and P16 round trips                                                  *)
(***************************************************************************)
\* C1 as stated: a grid with samples in [0,255] and resolution (w,h), encoded
\* as P8 and decoded with from_transfer_format('P8', bytes, (w,h)), comes
\* back as the same grid.
C1_RoundTripP8_AsStated ==
    (LoopedBack(Str("P8")) /\ InRange(sent, 255) /\ call.resolution = sent.resolution)
        => (result.kind = "image" /\ SameGrid(result.image, sent))

\* C1 amended: the P8 round trip returns the same grid (same dimensions, same
\* sample at every position) when the decoder is given the resolution with
\* its components swapped; given (w,h) itself it returns the samples in the
\* same order on a grid of dimensions (h,w), which is the same grid only when
\* w = h.
C1_RoundTripP8 ==
    (LoopedBack(Str("P8")) /\ InRange(sent, 255))
        => /\ result.kind = "image"
           /\ result.image.array.data = sent.array.data
           /\ result.image.resolution = Swap(call.resolution)
           /\ call.resolution = Swap(sent.resolution) => SameGrid(result.image, sent)
           /\ call.resolution = sent.resolution
                 => (SameGrid(result.image, sent)
                        <=> sent.resolution[1] = sent.resolution[2])

\* a non-square grid of distinct 8-bit samples came back through P8
C1_Witness ==
    /\ LoopedBack(Str("P8")) /\ InRange(sent, 255)
    /\ sent.resolution[1] > sent.resolution[2] /\ sent.resolution[2] > 1
    /\ sent.array.data[1] # sent.array.data[2]
    /\ call.resolution = Swap(sent.resolution)
    /\ result.kind = "image" /\ SameGrid(result.image, sent)

\* C2: a grid with samples in [0,65535], encoded as P16 and decoded with
\* from_transfer_format('P16', bytes, R), R the grid's resolution with its
\* components swapped, comes back as the same grid with the same resolution
\* attribute.
C2_RoundTripP16 ==
    (LoopedBack(Str("P16")) /\ InRange(sent, 65535)
        /\ call.resolution = Swap(sent.resolution))
        => /\ result.kind = "image"
           /\ SameGrid(result.image, sent)
           /\ result.image.resolution = sent.resolution

\* a non-square grid holding a two-byte sample came back through P16
C2_Witness ==
    /\ LoopedBack(Str("P16")) /\ InRange(sent, 65535)
    /\ sent.resolution[1] # sent.resolution[2]
    /\ \E i \in 1..Samples(sent) : sent.array.data[i] > 255
    /\ sent.array.data[1] # sent.array.data[2]
    /\ call.resolution = Swap(sent.resolution)
    /\ result.kind = "image" /\ result.image.resolution = sent.resolution

(***************************************************************************)
(* Format tokens                                                           *)
(***************************************************************************)
\* the canonical name of a token's row in the format table
Canonical(fmt) ==
    IF fmt \in {Str("P8"), Str("P8R"), Num(8), Num(-8)} THEN Str("P8")
    ELSE IF fmt \in {Str("P16"), Str("P16R"), Num(272), Num(-272)} THEN Str("P16")
    ELSE Str("P10")

\* C3 as stated: every token of the format table resolves to a codec, and in
\* both directions a call under any token of a row has the outcome of the
\* same call under the row's canonical name, never an unknown-format failure.
C3_TokensInterchangeable ==
    /\ (call.name = "to_transfer_format" /\ call.fmt \in TableTokens)
          => /\ call.method # ""
             /\ result = to_transfer_format(sent, Canonical(call.fmt))
    /\ (call.name = "from_transfer_format" /\ call.fmt \in TableTokens)
          => /\ call.method # ""
             /\ result.error # "KeyError"
             /\ result = from_transfer_format(Canonical(call.fmt), call.raw,
                                              call.resolution)

\* C4: under a token that is not in the format table both to_transfer_format
\* and from_transfer_format end in the unsupported-format error (KeyError),
\* whatever the image, bytes and resolution: nothing is returned and no codec
\* is invoked.
C4_UnknownToken ==
    (call.name # "" /\ call.fmt \notin TableTokens)
        => /\ result.kind = "error" /\ result.error = "KeyError"
           /\ result.bytes = <<>> /\ result.image = NoImage
           /\ call.method = ""

\* both operations were refused a case variant of a table token
C4_Witness ==
    /\ call.name = "from_transfer_format"
    /\ call.fmt = Str("p16")
    /\ sent # NoImage /\ InRange(sent, 65535) /\ call.raw = p16(sent).bytes
    /\ result.error = "KeyError"

(***************************************************************************)
(* Malformed lengths                                                       *)
(***************************************************************************)
\* C5 as stated: decoding as P16 a byte string of odd length, or as P10 a
\* byte string whose length is not a multiple of 20, ends in an error and
\* returns no image, for every declared resolution.
C5_MalformedLengthIsError ==
    /\ (call.method = "from_p16" /\ Len(call.raw) % 2 # 0)
          => (result.kind = "error" /\ result.image = NoImage)
    /\ (call.method = "from_p10" /\ Len(call.raw) % 20 # 0)
          => (result.kind = "error" /\ result.image = NoImage)

(***************************************************************************)
(* P10                                                                     *)
(***************************************************************************)
\* the samples the P10 decoder produces from the P10 encoding of n samples:
\* 16 * ceil(4 * ceil(n / 3) / 20)
DecodedCount(n) == 16 * ((4 * ((n + 2) \div 3) + 19) \div 20)

\* C6: a non-empty image with samples in [0,1023], encoded as P10 and decoded
\* as P10 with its resolution in either order, never comes back as the same
\* grid: the decoder produces 16 * ceil(4 * ceil(n / 3) / 20) samples, which
\* differs from n.
C6_P10NeverRoundTrips ==
    (LoopedBack(Str("P10")) /\ InRange(sent, 1023) /\ Samples(sent) >= 1
        /\ call.resolution \in {sent.resolution, Swap(sent.resolution)})
        => /\ ~(result.kind = "image" /\ SameGrid(result.image, sent))
           /\ from_p10(call.raw, <<1, DecodedCount(Samples(sent))>>).kind = "image"
           /\ DecodedCount(Samples(sent)) # Samples(sent)

\* an image of two full groups and a tail was encoded and decoded as P10 and
\* the decoder failed on the sample count
C6_Witness ==
    /\ LoopedBack(Str("P10")) /\ InRange(sent, 1023) /\ Samples(sent) >= 7
    /\ call.resolution = Swap(sent.resolution)
    /\ result.kind = "error" /\ result.error = "ValueError"

\* the four bytes of the 32-bit big-endian word (a << 22) | (b << 12) | (c << 2)
\* of 10-bit samples a, b, c
WordBytes(a, b, c) ==
    <<a \div 4, (a % 4) * 64 + b \div 16, (b % 16) * 16 + c \div 64, (c % 64) * 4>>

\* the g-th four-byte word of a byte string, g = 1, 2, ...
Word(bs, g) == SubSeq(bs, 4 * g - 3, 4 * g)

\* the last call encoded `sent` as P10
EncodedP10 == call.name = "to_transfer_format" /\ call.method = "p10"

\* C7: p10 of n samples in [0,1023] emits exactly ceil(n / 3) four-byte
\* big-endian words in group order; the word of a full group (a, b, c) is
\* (a << 22) | (b << 12) | (c << 2): its two lowest bits are 0 and the samples
\* are recovered as (word >> 22) & 1023, (word >> 12) & 1023, (word >> 2) & 1023.
C7_P10FullGroups ==
    (EncodedP10 /\ InRange(sent, 1023))
        => /\ result.kind = "bytes"
           /\ Len(result.bytes) = 4 * ((Samples(sent) + 2) \div 3)
           /\ \A g \in 1..(Samples(sent) \div 3) :
                LET a == sent.array.data[3 * g - 2]
                    b == sent.array.data[3 * g - 1]
                    c == sent.array.data[3 * g]
                    w == Word(result.bytes, g)
                IN  /\ w = WordBytes(a, b, c)
                    /\ w[4] % 4 = 0
                    /\ a = w[1] * 4 + w[2] \div 64
                    /\ b = (w[2] % 64) * 16 + w[3] \div 16
                    /\ c = (w[3] % 16) * 64 + w[4] \div 4

\* two full groups of distinct samples, some using all ten bits, were packed
C7_Witness ==
    /\ EncodedP10 /\ InRange(sent, 1023) /\ Samples(sent) >= 7
    /\ sent.array.data[4] > 512 /\ sent.array.data[4] # sent.array.data[5]
    /\ result.kind = "bytes"
    /\ Word(result.bytes, 2)
          = WordBytes(sent.array.data[4], sent.array.data[5], sent.array.data[6])

\* the tail group of an image whose sample count is not a multiple of 3
TailGroup(img) == Group(img.array.data, (Samples(img) + 2) \div 3)

\* C9 as stated: the last word of an image whose sample count is not a
\* multiple of 3 is the word of the full group made of the tail samples
\* followed by zeros: (a) packs as (a, 0, 0) and (a, b) as (a, b, 0).
C9_TailPaddedLow_AsStated ==
    (EncodedP10 /\ InRange(sent, 1023) /\ Samples(sent) % 3 # 0)
        => /\ result.kind = "bytes"
           /\ LET t == TailGroup(sent)
                  w == Word(result.bytes, (Samples(sent) + 2) \div 3)
              IN  w = IF Len(t) = 1 THEN WordBytes(t[1], 0, 0)
                      ELSE WordBytes(t[1], t[2], 0)

\* C9 amended: the last word of an image whose sample count is not a multiple
\* of 3 holds the tail samples in the low-order fields and zeros in the
\* high-order ones: (a) packs as the full group (0, 0, a) and (a, b) as
\* (0, a, b).
C9_TailPaddedHigh ==
    (EncodedP10 /\ InRange(sent, 1023) /\ Samples(sent) % 3 # 0)
        => /\ result.kind = "bytes"
           /\ LET t == TailGroup(sent)
                  w == Word(result.bytes, (Samples(sent) + 2) \div 3)
              IN  w = IF Len(t) = 1 THEN WordBytes(0, 0, t[1])
                      ELSE WordBytes(0, t[1], t[2])

\* a full group followed by a tail of two distinct non-zero samples was packed
C9_Witness ==
    /\ EncodedP10 /\ InRange(sent, 1023) /\ Samples(sent) = 5
    /\ sent.array.data[4] > 0 /\ sent.array.data[5] > sent.array.data[4]
    /\ result.kind = "bytes"
    /\ Word(result.bytes, 2) = WordBytes(0, sent.array.data[4], sent.array.data[5])
    /\ Word(result.bytes, 2) # WordBytes(sent.array.data[4], sent.array.data[5], 0)

\* bit t (0 = most significant) of the 10-bit field j (0 = first) of the
\* 20-byte chunk k (0 = first) of a byte string: the chunk read big-endian
BitOfField(bs, k, j, t) ==
    LET pos == 10 * j + t
        byte == bs[20 * k + (pos \div 8) + 1]
    IN  (byte \div Pow2(7 - (pos % 8))) % 2

\* (V >> (10 * (15 - j))) & 1023 for the chunk's 160-bit big-endian value V
FieldOfChunk(bs, k, j) ==
    512 * BitOfField(bs, k, j, 0) + 256 * BitOfField(bs, k, j, 1)
    + 128 * BitOfField(bs, k, j, 2) + 64 * BitOfField(bs, k, j, 3)
    + 32 * BitOfField(bs, k, j, 4) + 16 * BitOfField(bs, k, j, 5)
    + 8 * BitOfField(bs, k, j, 6) + 4 * BitOfField(bs, k, j, 7)
    + 2 * BitOfField(bs, k, j, 8) + BitOfField(bs, k, j, 9)

\* C8: from_p10 of a byte string whose length is a multiple of 20, with a
\* resolution of 16 * (length / 20) samples, yields as flat sample 16k + j
\* the j-th most significant 10-bit field of chunk k read as a 160-bit
\* big-endian integer; every sample is in [0,1023] and the flat sequence is
\* laid out row-major in the resolution passed to from_p10.
C8_P10DecodeLayout ==
    (call.method = "from_p10" /\ Len(call.raw) % 20 = 0
        /\ call.resolution[1] * call.resolution[2] = 16 * (Len(call.raw) \div 20))
        => /\ result.kind = "image"
           /\ result = from_p10(call.raw, Swap(call.resolution))
           /\ result.image.array.shape = Swap(call.resolution)
           /\ result.image.resolution = Swap(call.resolution)
           /\ Len(result.image.array.data) = 16 * (Len(call.raw) \div 20)
           /\ \A k \in 0..((Len(call.raw) \div 20) - 1), j \in 0..15 :
                /\ result.image.array.data[16 * k + j + 1] = FieldOfChunk(call.raw, k, j)
                /\ result.image.array.data[16 * k + j + 1] \in 0..1023
           /\ \A row \in 1..call.resolution[2], col \in 1..call.resolution[1] :
                At(result.image, row, col)
                    = result.image.array.data[(row - 1) * call.resolution[1] + col]

\* a chunk of varied bytes was decoded into a grid of 2 rows of 8 samples
C8_Witness ==
    /\ call.method = "from_p10" /\ Len(call.raw) = 20
    /\ call.raw[1] # call.raw[2] /\ call.raw[2] # call.raw[3]
    /\ call.resolution = <<8, 2>>
    /\ result.kind = "image"
    /\ result.image.array.shape = <<2, 8>>
    /\ result.image.array.data[1] # result.image.array.data[16]
    /\ At(result.image, 2, 1) = FieldOfChunk(call.raw, 0, 8)

(***************************************************************************)
(* Out-of-range samples                                                    *)
(***************************************************************************)
\* the last call encoded `sent` with the named encoder
Encoded(method) == call.name = "to_transfer_format" /\ call.method = method

\* C10 as stated: no encoder fails on a sample above its format's range; p8
\* emits sample mod 256, p16 the little-endian pair of sample mod 65536, and
\* p10 packs sample mod 1024 into each field.
C10_EncodersTruncate_AsStated ==
    /\ Encoded("p8")
          => /\ result.kind = "bytes"
             /\ result.bytes = [i \in 1..Samples(sent) |-> sent.array.data[i] % 256]
    /\ Encoded("p16")
          => /\ result.kind = "bytes"
             /\ \A i \in 1..Samples(sent) :
                   /\ result.bytes[2 * i - 1] = sent.array.data[i] % 256
                   /\ result.bytes[2 * i] = (sent.array.data[i] % 65536) \div 256
    /\ Encoded("p10")
          => /\ result.kind = "bytes"
             /\ \A g \in 1..(Samples(sent) \div 3) :
                   Word(result.bytes, g)
                       = WordBytes(sent.array.data[3 * g - 2] % 1024,
                                   sent.array.data[3 * g - 1] % 1024,
                                   sent.array.data[3 * g] % 1024)

====
